---------------------------- MODULE Spec2Model ----------------------------
(***************************************************************************)
(* Replay engine: DeterministicReplayer.execute_replay driven by the       *)
(* control API, over the session registry, the checkpoint store and the    *)
(* broker stream.                                                          *)
(*                                                                         *)
(* The replayer is replay-engine/src/replay/deterministic_replayer.py.     *)
(* The two registry methods it calls, update_session_status and            *)
(* update_session_progress, are defined only in                            *)
(* "replay engine/src/replay/session_manager.py"; create_session,          *)
(* complete_session and the stop handler are those of replay-engine/.      *)
(* The broker adapter is "replay engine/src/adapters/                      *)
(* redis_stream_adapter.py".                                               *)
(*                                                                         *)
(* One replay task runs under asyncio: a step of the task runs without     *)
(* interruption up to its next real suspension (a broker or store call,    *)
(* or the pacing sleep).  Registry methods and analyze_event never         *)
(* suspend, so they are part of the step that calls them.  Another         *)
(* handler (stop) or a crash of the process happens only while the task    *)
(* is suspended, or when no task runs.                                     *)
(*                                                                         *)
(* Broker ids are 1..Len(stream) in insertion order; 0 is the id "0".      *)
(* A timestamp is a natural number (the parsed instant) or BadTs, a        *)
(* string datetime.fromisoformat rejects.  event_id is a natural number    *)
(* standing for the string under its lexicographic order.                  *)
(* A progress value (a float quotient) is a pair <<num, den>>; two         *)
(* values are equal when they cross-multiply equal.                        *)
(***************************************************************************)
EXTENDS Integers, Sequences, FiniteSets, TLC

\* ---- bounds of the model
MaxEvents == 2
MaxTs == 2
MaxCheckpointEvery == 2
MaxRuns == 2

\* ---- program constants
GapThresholdSeconds == 300
RepeatedErrorThreshold == 3

BadTs == -1
ReplayId == "r1"
ErrorLevels == {"ERROR", "FATAL", "CRITICAL"}

VARIABLES
    stream,            \* the broker stream: Seq of [ts, event_id, level, source]
    cfg,               \* replay config + configs/replay_config.yml values
    run,               \* number of execute_replay tasks started so far
    pc,                \* position of the current task
    sessions,          \* SessionManager.sessions: replay_id -> ReplaySession
    checkpoints,       \* checkpoint store: <<replay_id, kind>> -> record
    connected,         \* adapter.redis_client is set
    events,            \* local: the sorted batch
    idx,               \* local: 1-based position in events (enumerate)
    checkpoint,        \* local: the loaded main checkpoint, <<>> for None
    start_id,          \* local
    events_processed,  \* local
    total_events,      \* local
    progress,          \* local: <<num, den>>, Unbound before the first event
    raising,           \* the task is unwinding with an exception
    result,            \* value returned by execute_replay, <<>> if none
    reports,           \* report files written: [json, html]
    detector,          \* BugDetector state: [last_event_times, error_counts]
    analyzed,          \* history, per run: stream ids handed to analyze_event
    acked,             \* history, per run: stream ids handed to acknowledge_message
    published,         \* history, per run: events_processed values published
    findings,          \* history, per run: number of findings returned
    outcomes,          \* history, per run: "completed" | "raised" | "crashed"
    stop_at,           \* history: where the first stop request of this run landed
    faults,            \* history: the I/O failures injected into the current run
    error_metrics,     \* per run: error_type labels given to record_event_error
    detectors,         \* BugDetector instances: state cell -> [last_event_times, error_counts]
    fed,               \* per BugDetector instance: the events given to analyze_event
    bugs,              \* per BugDetector instance: the lists analyze_event returned
    tasks,             \* replay_id of every execute_replay task created and not ended
    response,          \* the last HTTP response of the control API
    now,               \* int(datetime.now().timestamp())
    redis,             \* the checkpoint keys in Redis: key -> [data, timestamp, ttl]
    calls              \* history of CheckpointStore calls: [op, key, data, result]

vars == <<stream, cfg, run, pc, sessions, checkpoints, connected, events, idx,
          checkpoint, start_id, events_processed, total_events, progress, raising, result,
          reports, detector, analyzed, acked, published, findings, outcomes,
          stop_at, faults, error_metrics,
          detectors, fed, bugs, tasks, response, now, redis, calls>>

\* the state of the replay task, its registry, store and broker
replayVars == <<stream, cfg, run, pc, sessions, checkpoints, connected, events, idx,
                checkpoint, start_id, events_processed, total_events, progress,
                raising, result, reports, detector, analyzed, acked, published,
                findings, outcomes, stop_at, faults, error_metrics>>

\* the state of components driven on their own
unitVars == <<detectors, fed, bugs, tasks, response, now, redis, calls>>

\* ---- values
Unbound == <<0, 0>>
ProgressEq(p, q) == p[2] # 0 /\ q[2] # 0 /\ p[1] * q[2] = q[1] * p[2]
ProgressLeq(p, q) == p[2] # 0 /\ q[2] # 0 /\ p[1] * q[2] <= q[1] * p[2]
Zero == <<0, 1>>
One == <<1, 1>>

NoStop == [iter |-> -1, in_loop |-> FALSE, status |-> "none"]
MainKey == <<ReplayId, "main">>

TerminalStatuses == {"completed", "failed", "stopped"}
AwaitPcs == {"connect", "load_checkpoint", "read", "pace", "save", "ack",
             "final_save", "disconnect"}
LoopPcs == {"pace", "process", "save", "ack"}
EndedPcs == {"idle", "done", "raised", "crashed"}

Range(s) == {s[k] : k \in 1..Len(s)}
Min(a, b) == IF a <= b THEN a ELSE b
Max(a, b) == IF a >= b THEN a ELSE b


\* ---- broker adapter

\* StreamMessage built by read_messages_by_range for broker id k
Message(k) ==
    IF "session_id" \in DOMAIN stream[k]
    THEN [stream_id |-> k, ts |-> stream[k].ts, event_id |-> stream[k].event_id,
          level |-> stream[k].level, source |-> stream[k].source,
          session_id |-> stream[k].session_id]
    ELSE [stream_id |-> k, ts |-> stream[k].ts, event_id |-> stream[k].event_id,
          level |-> stream[k].level, source |-> stream[k].source]

\* redis XRANGE key min max COUNT count with max = "+": the entries whose id
\* is >= min, in id order, at most count of them
XRange(min_id, count) ==
    LET first == Max(min_id, 1)
        last == Min(Len(stream), first + count - 1)
    IN [k \in 1..Max(last - first + 1, 0) |-> Message(first + k - 1)]

read_messages_by_range(start, count) == XRange(start, count)

\* ---- deterministic sort

\* datetime.fromisoformat raises ValueError on a string it cannot parse
Parseable(e) == e.ts # BadTs

\* tuple comparison of the sort keys (parsed timestamp, event_id)
KeyLess(a, b) == a.ts < b.ts \/ (a.ts = b.ts /\ a.event_id < b.event_id)
KeyLeq(a, b) == ~KeyLess(b, a)

\* list.sort is stable: an element goes behind every earlier element whose
\* key is not greater than its own
RECURSIVE InsertSorted(_, _)
InsertSorted(s, e) ==
    IF s = <<>> THEN <<e>>
    ELSE IF KeyLess(e, s[Len(s)]) THEN
            Append(InsertSorted(SubSeq(s, 1, Len(s) - 1), e), s[Len(s)])
         ELSE Append(s, e)

RECURSIVE SortFrom(_, _)
SortFrom(done, rest) ==
    IF rest = <<>> THEN done
    ELSE SortFrom(InsertSorted(done, Head(rest)), Tail(rest))

\* the batch left in broker-id order
SortEvents_Unsorted(evts) == evts

SortEvents(evts) == SortFrom(<<>>, evts)

SortRaises(evts) == \E k \in 1..Len(evts) : ~Parseable(evts[k])

\* ---- bug detector

Get(f, k, default) == IF k \in DOMAIN f THEN f[k] ELSE default
Put(f, k, v) == [x \in DOMAIN f \cup {k} |-> IF x = k THEN v ELSE f[x]]

\* fields.get("session_id", "default")
SessionKey(e) == Get(e, "session_id", "default")
\* f"{source}:{level}"
ErrorKey(e) == <<e.source, e.level>>

\* f"bug-{event.event_id}-<rule>"
BugId(e, rule) == <<"bug", e.event_id, rule>>

\* only level ERROR flagged
ErrorLevelBug_OnlyError(e) ==
    IF e.level = "ERROR"
    THEN <<[bug_id |-> BugId(e, "error"), bug_type |-> "error_event",
            severity |-> "high", event_id |-> e.event_id,
            context |-> [message |-> Get(e, "payload", <<>>), level |-> e.level]]>>
    ELSE <<>>

\* "if fields.get("level") in self.error_levels"
ErrorLevelBug(e) ==
    IF e.level \in ErrorLevels
    THEN <<[bug_id |-> BugId(e, "error"), bug_type |-> "error_event",
            severity |-> "high", event_id |-> e.event_id,
            context |-> [message |-> Get(e, "payload", <<>>), level |-> e.level]]>>
    ELSE <<>>

\* a gap equal to the threshold flagged too
TimingGapBug_AtThreshold(d, e) ==
    IF SessionKey(e) \in DOMAIN d.last_event_times
       /\ e.ts - d.last_event_times[SessionKey(e)] >= GapThresholdSeconds
    THEN <<[bug_id |-> BugId(e, "gap"), bug_type |-> "timing_gap",
            severity |-> "medium", event_id |-> e.event_id,
            context |-> [gap_seconds |-> e.ts - d.last_event_times[SessionKey(e)]]]>>
    ELSE <<>>

\* "if last_time and gap > threshold": no stored time, no finding
TimingGapBug(d, e) ==
    IF SessionKey(e) \in DOMAIN d.last_event_times
       /\ e.ts - d.last_event_times[SessionKey(e)] > GapThresholdSeconds
    THEN <<[bug_id |-> BugId(e, "gap"), bug_type |-> "timing_gap",
            severity |-> "medium", event_id |-> e.event_id,
            context |-> [gap_seconds |-> e.ts - d.last_event_times[SessionKey(e)]]]>>
    ELSE <<>>

\* a count equal to the threshold flagged too
RepeatedErrorBug_AtThreshold(d, e) ==
    IF Get(d.error_counts, ErrorKey(e), 0) + 1 >= RepeatedErrorThreshold
    THEN <<[bug_id |-> BugId(e, "repeated"), bug_type |-> "repeated_error",
            severity |-> "high", event_id |-> e.event_id,
            context |-> [error_count |-> Get(d.error_counts, ErrorKey(e), 0) + 1,
                         source |-> e.source]]>>
    ELSE <<>>

\* "if self.error_counts[error_key] > 3"
RepeatedErrorBug(d, e) ==
    IF Get(d.error_counts, ErrorKey(e), 0) + 1 > RepeatedErrorThreshold
    THEN <<[bug_id |-> BugId(e, "repeated"), bug_type |-> "repeated_error",
            severity |-> "high", event_id |-> e.event_id,
            context |-> [error_count |-> Get(d.error_counts, ErrorKey(e), 0) + 1,
                         source |-> e.source]]>>
    ELSE <<>>

\* analyze_event: the findings, and the detector state it leaves
AnalyzeBugs(d, e) ==
    IF ~Parseable(e) THEN <<>>
    ELSE ErrorLevelBug(e) \o TimingGapBug(d, e) \o RepeatedErrorBug(d, e)

\* a detector that counts the event before it parses the timestamp
AnalyzeState_CountsFirst(d, e) ==
    [last_event_times |->
        IF Parseable(e) THEN Put(d.last_event_times, SessionKey(e), e.ts)
        ELSE d.last_event_times,
     error_counts |-> Put(d.error_counts, ErrorKey(e),
                          Get(d.error_counts, ErrorKey(e), 0) + 1)]

AnalyzeState(d, e) ==
    IF ~Parseable(e) THEN d
    ELSE [last_event_times |-> Put(d.last_event_times, SessionKey(e), e.ts),
          error_counts |-> Put(d.error_counts, ErrorKey(e),
                               Get(d.error_counts, ErrorKey(e), 0) + 1)]

NewDetector == [last_event_times |-> <<>>, error_counts |-> <<>>]

\* ---- session registry

\* create_session: a new ReplaySession under replay_id
NewSession ==
    [status |-> "running", progress |-> Zero, events_processed |-> 0,
     total_events |-> 0, bugs_detected |-> 0,
     current_event_id |-> "None", message |-> "None"]

\* update_session_status: sets the status of the session found, whatever it was
StatusWritten(old, new) == new

update_session_status(ss, rid, status) ==
    IF rid \in DOMAIN ss
    THEN [ss EXCEPT ![rid].status = StatusWritten(ss[rid].status, status)]
    ELSE ss

\* update_session_progress with the keyword arguments given (kw is a record
\* holding only the supplied fields)
update_session_progress(ss, rid, kw) ==
    IF rid \in DOMAIN ss
    THEN [ss EXCEPT
            ![rid].events_processed =
                IF "events_processed" \in DOMAIN kw THEN kw.events_processed ELSE @,
            ![rid].total_events =
                IF "total_events" \in DOMAIN kw THEN kw.total_events ELSE @,
            ![rid].progress =
                IF "progress" \in DOMAIN kw THEN kw.progress ELSE @]
    ELSE ss

\* ---- checkpoint store

\* save_checkpoint under key replay:checkpoint:<replay_id>:<kind>
save_checkpoint(cs, rid, data) == Put(cs, <<rid, "main">>, data)

\* load_checkpoint: the stored data, or none
HasCheckpoint(cs, rid) == <<rid, "main">> \in DOMAIN cs

\* ---- inputs

Levels == {"INFO"}
Sources == {"app"}
Modes == {"dry-run", "timed"}
Speeds == {2}

EventValues ==
    [ts : (1..MaxTs) \cup {BadTs}, event_id : 1..MaxEvents,
     level : Levels, source : Sources]

\* event_id is unique within a stream
Streams ==
    UNION {{s \in [1..n -> EventValues] :
                \A a, b \in 1..n : a # b => s[a].event_id # s[b].event_id} :
           n \in 0..MaxEvents}

Configs ==
    [mode : Modes, speed : Speeds, checkpoint_every : 1..MaxCheckpointEvery,
     max_events_per_batch : {MaxEvents}]

\* ---- the replay task

\* "if config["mode"] == "timed" and config["speed"] != 1.0"
Paced == cfg.mode = "timed" /\ cfg.speed # 1

\* the seconds slept before an event under config c: "await
\* asyncio.sleep(1.0 / config["speed"])" under that test, nothing otherwise
PacingDelay(c) == IF c.mode = "timed" /\ c.speed # 1 THEN <<1, c.speed>> ELSE Zero

\* where the task suspends next once the loop is over
AfterLoop(evts) == IF evts # <<>> THEN "final_save" ELSE "report"

\* the for statement: the next event, or the end of the loop
LoopHead(evts, k) ==
    IF k <= Len(evts) THEN (IF Paced THEN "pace" ELSE "process")
    ELSE AfterLoop(evts)

AppendRun(h, v) == [h EXCEPT ![run] = Append(@, v)]

\* no replay started yet; nothing in the registry or the checkpoint store
Fresh ==
    /\ run = 0
    /\ pc = "idle"
    /\ sessions = <<>>
    /\ checkpoints = <<>>
    /\ connected = TRUE
    /\ events = <<>>
    /\ idx = 0
    /\ checkpoint = <<>>
    /\ start_id = 0
    /\ events_processed = 0
    /\ total_events = 0
    /\ progress = Unbound
    /\ raising = FALSE
    /\ result = <<>>
    /\ reports = [json |-> FALSE, html |-> FALSE]
    /\ detector = NewDetector
    /\ analyzed = <<>>
    /\ acked = <<>>
    /\ published = <<>>
    /\ findings = <<>>
    /\ outcomes = <<>>
    /\ stop_at = NoStop
    /\ faults = {}
    /\ error_metrics = <<>>

\* no component is driven on its own
Idle ==
    /\ detectors = <<>>
    /\ fed = <<>>
    /\ bugs = <<>>
    /\ tasks = <<>>
    /\ response = <<>>
    /\ now = 0
    /\ redis = <<>>
    /\ calls = <<>>

Init ==
    /\ stream \in Streams
    /\ cfg \in Configs
    /\ Fresh
    /\ Idle

\* start_replay: create the session, build a replayer and schedule its task
StartReplay ==
    /\ pc \in EndedPcs
    /\ run < MaxRuns
    /\ run' = run + 1
    /\ sessions' = Put(sessions, ReplayId, NewSession)
    /\ detector' = NewDetector
    /\ pc' = "connect"
    /\ events' = <<>>
    /\ idx' = 0
    /\ checkpoint' = <<>>
    /\ start_id' = 0
    /\ events_processed' = 0
    /\ total_events' = 0
    /\ progress' = Unbound
    /\ raising' = FALSE
    /\ result' = <<>>
    /\ reports' = [json |-> FALSE, html |-> FALSE]
    /\ analyzed' = Append(analyzed, <<>>)
    /\ acked' = Append(acked, <<>>)
    /\ published' = Append(published, <<>>)
    /\ findings' = Append(findings, 0)
    /\ stop_at' = NoStop
    /\ faults' = {}
    /\ error_metrics' = Append(error_metrics, <<>>)
    /\ UNCHANGED <<stream, cfg, checkpoints, connected, outcomes>>
    /\ UNCHANGED unitVars

\* the except clause leaving the session as it is
HandlerSessions_Skip(ss) == ss

\* the except clause: mark the session failed, then unwind through finally
HandlerSessions(ss) == update_session_status(ss, ReplayId, "failed")

\* the except clause: record_event_error(type(e).__name__)
HandlerMetrics(em, kind) == [em EXCEPT ![run] = Append(@, kind)]

\* connect returns; get_session; mark the session running
Connect ==
    /\ pc = "connect"
    /\ connected' = TRUE
    /\ IF ReplayId \in DOMAIN sessions
       THEN /\ sessions' = update_session_status(sessions, ReplayId, "running")
            /\ pc' = "load_checkpoint"
            /\ UNCHANGED <<raising, error_metrics>>
       ELSE /\ sessions' = HandlerSessions(sessions)
            /\ error_metrics' = HandlerMetrics(error_metrics, "ValueError")
            /\ raising' = TRUE
            /\ pc' = "disconnect"
    /\ UNCHANGED <<stream, cfg, run, checkpoints, events, idx, checkpoint, start_id,
                   events_processed, total_events, progress, result, reports,
                   detector, analyzed, acked, published, findings, outcomes,
                   stop_at,
                   faults>>
    /\ UNCHANGED unitVars

\* load_checkpoint: the stored data, or None
load_checkpoint(cs, rid) == IF HasCheckpoint(cs, rid) THEN cs[<<rid, "main">>] ELSE <<>>

\* checkpoint.get("current_message_id", "0") if checkpoint else "0"
ResumeId(c) == IF c # <<>> THEN c.current_message_id ELSE 0

\* the count restarted from zero whatever the checkpoint holds
ResumeCount_FromZero(c) == 0

\* checkpoint.get("events_processed", 0) if checkpoint else 0
ResumeCount(c) == IF c # <<>> THEN c.events_processed ELSE 0

\* load_checkpoint returns: resume from the checkpoint if there is one
LoadCheckpoint ==
    /\ pc = "load_checkpoint"
    /\ checkpoint' = load_checkpoint(checkpoints, ReplayId)
    /\ start_id' = ResumeId(load_checkpoint(checkpoints, ReplayId))
    /\ events_processed' = ResumeCount(load_checkpoint(checkpoints, ReplayId))
    /\ pc' = "read"
    /\ UNCHANGED <<stream, cfg, run, sessions, checkpoints, connected, events,
                   idx, total_events, progress, raising, result, reports,
                   detector, analyzed, acked, published, findings, outcomes,
                   stop_at,
                   faults, error_metrics>>
    /\ UNCHANGED unitVars

\* read_messages_by_range returns: sort, publish total_events, enter the loop
ReadRange ==
    /\ pc = "read"
    /\ LET batch == read_messages_by_range(start_id, cfg.max_events_per_batch)
       IN IF SortRaises(batch)
          THEN /\ sessions' = HandlerSessions(sessions)
               /\ error_metrics' = HandlerMetrics(error_metrics, "ValueError")
               /\ raising' = TRUE
               /\ pc' = "disconnect"
               /\ UNCHANGED <<events, idx, total_events>>
          ELSE /\ events' = SortEvents(batch)
               /\ total_events' = Len(batch)
               /\ sessions' = update_session_progress(sessions, ReplayId,
                                  [total_events |-> Len(batch)])
               /\ idx' = 1
               /\ pc' = LoopHead(SortEvents(batch), 1)
               /\ UNCHANGED <<raising, error_metrics>>
    /\ UNCHANGED <<stream, cfg, run, checkpoints, connected, checkpoint, start_id,
                   events_processed, progress, result, reports, detector,
                   analyzed, acked, published, findings, outcomes, stop_at,
                   faults>>
    /\ UNCHANGED unitVars

\* the pacing sleep returns
Pace ==
    /\ pc = "pace"
    /\ pc' = "process"
    /\ UNCHANGED <<stream, cfg, run, sessions, checkpoints, connected, events,
                   idx, checkpoint, start_id, events_processed, total_events, progress,
                   raising, result, reports, detector, analyzed, acked,
                   published, findings, outcomes, stop_at,
                   faults, error_metrics>>
    /\ UNCHANGED unitVars

\* "events_processed / total_events if total_events > 0 else 0.0"
ProgressOf(ep, total) == IF total > 0 THEN <<ep, total>> ELSE Zero

\* no periodic checkpoint
CheckpointDue_Never(ep) == FALSE

\* "if events_processed % checkpoint_every == 0"
CheckpointDue(ep) == ep % cfg.checkpoint_every = 0

\* "events_processed += 1"
NextCount(ep) == ep + 1

\* analyze the event, count it, publish the progress
ProcessEvent ==
    /\ pc = "process"
    /\ LET e == events[idx]
           ep == NextCount(events_processed)
           pr == ProgressOf(ep, total_events)
       IN /\ detector' = AnalyzeState(detector, e)
          /\ findings' = [findings EXCEPT ![run] = @ + Len(AnalyzeBugs(detector, e))]
          /\ analyzed' = AppendRun(analyzed, e.stream_id)
          /\ events_processed' = ep
          /\ progress' = pr
          /\ sessions' = update_session_progress(sessions, ReplayId,
                             [events_processed |-> ep, progress |-> pr])
          /\ published' = AppendRun(published, ep)
          /\ pc' = IF CheckpointDue(ep) THEN "save" ELSE "ack"
    /\ UNCHANGED <<stream, cfg, run, checkpoints, connected, events, idx,
                   checkpoint, start_id, total_events, raising, result, reports, acked,
                   outcomes, stop_at,
                   faults, error_metrics>>
    /\ UNCHANGED unitVars

\* the periodic checkpoint
SaveCheckpoint ==
    /\ pc = "save"
    /\ checkpoints' = save_checkpoint(checkpoints, ReplayId,
                          [events_processed |-> events_processed,
                           current_message_id |-> events[idx].stream_id,
                           progress |-> progress,
                           completed_at |-> FALSE])
    /\ pc' = "ack"
    /\ UNCHANGED <<stream, cfg, run, sessions, connected, events, idx, checkpoint, start_id,
                   events_processed, total_events, progress, raising, result,
                   reports, detector, analyzed, acked, published, findings,
                   outcomes, stop_at,
                   faults, error_metrics>>
    /\ UNCHANGED unitVars

\* acknowledge the event, then the for statement again
Ack ==
    /\ pc = "ack"
    /\ acked' = AppendRun(acked, events[idx].stream_id)
    /\ idx' = idx + 1
    /\ pc' = LoopHead(events, idx + 1)
    /\ UNCHANGED <<stream, cfg, run, sessions, checkpoints, connected, events,
                   checkpoint, start_id, events_processed, total_events, progress, raising,
                   result, reports, detector, analyzed, published, findings,
                   outcomes, stop_at,
                   faults, error_metrics>>
    /\ UNCHANGED unitVars

\* "if events:" the final checkpoint
FinalCheckpoint ==
    /\ pc = "final_save"
    /\ checkpoints' = save_checkpoint(checkpoints, ReplayId,
                          [events_processed |-> events_processed,
                           current_message_id |-> events[Len(events)].stream_id,
                           progress |-> One,
                           completed_at |-> TRUE])
    /\ pc' = "report"
    /\ UNCHANGED <<stream, cfg, run, sessions, connected, events, idx, checkpoint, start_id,
                   events_processed, total_events, progress, raising, result,
                   reports, detector, analyzed, acked, published, findings,
                   outcomes, stop_at,
                   faults, error_metrics>>
    /\ UNCHANGED unitVars

\* the JSON report, then the HTML report, whose text reads the local
\* progress: unbound when the loop body never ran
WriteReports ==
    /\ pc = "report"
    /\ IF progress = Unbound
       THEN /\ reports' = [json |-> TRUE, html |-> FALSE]
            /\ sessions' = HandlerSessions(sessions)
            /\ error_metrics' = HandlerMetrics(error_metrics, "UnboundLocalError")
            /\ raising' = TRUE
            /\ pc' = "disconnect"
       ELSE /\ reports' = [json |-> TRUE, html |-> TRUE]
            /\ pc' = "mark_completed"
            /\ UNCHANGED <<sessions, raising, error_metrics>>
    /\ UNCHANGED <<stream, cfg, run, checkpoints, connected, events, idx,
                   checkpoint, start_id, events_processed, total_events, progress, result,
                   detector, analyzed, acked, published, findings, outcomes,
                   stop_at,
                   faults>>
    /\ UNCHANGED unitVars

\* mark the session completed and return the result
MarkCompleted ==
    /\ pc = "mark_completed"
    /\ sessions' = update_session_status(sessions, ReplayId, "completed")
    /\ result' = [status |-> "completed", events_processed |-> events_processed,
                  total_events |-> total_events, progress |-> One]
    /\ pc' = "disconnect"
    /\ UNCHANGED <<stream, cfg, run, checkpoints, connected, events, idx,
                   checkpoint, start_id, events_processed, total_events, progress, raising,
                   reports, detector, analyzed, acked, published, findings,
                   outcomes, stop_at,
                   faults, error_metrics>>
    /\ UNCHANGED unitVars

\* finally: disconnect; an exception then reaches run_replay_with_logging,
\* which writes status failed itself
Disconnect ==
    /\ pc = "disconnect"
    /\ connected' = FALSE
    /\ IF raising
       THEN /\ pc' = "raised"
            /\ outcomes' = Append(outcomes, "raised")
            /\ sessions' = IF ReplayId \in DOMAIN sessions
                           THEN [sessions EXCEPT ![ReplayId].status = "failed"]
                           ELSE sessions
       ELSE /\ pc' = "done"
            /\ outcomes' = Append(outcomes, "completed")
            /\ UNCHANGED sessions
    /\ UNCHANGED <<stream, cfg, run, checkpoints, events, idx, checkpoint, start_id,
                   events_processed, total_events, progress, raising, result,
                   reports, detector, analyzed, acked, published, findings,
                   stop_at,
                   faults, error_metrics>>
    /\ UNCHANGED unitVars

\* ---- the environment

\* iterations of the loop begun so far
IterationsBegun ==
    IF pc \in LoopPcs THEN idx
    ELSE IF pc \in {"final_save", "report", "mark_completed", "disconnect"}
         THEN Len(events) ELSE 0

\* POST /replay/stop: writes status stopped on the session, whatever it was
StopReplay ==
    /\ pc \in AwaitPcs \cup EndedPcs
    /\ ReplayId \in DOMAIN sessions
    /\ sessions' = [sessions EXCEPT ![ReplayId].status = "stopped"]
    /\ stop_at' = IF stop_at = NoStop /\ pc \in AwaitPcs
                  THEN [iter |-> IterationsBegun, in_loop |-> pc \in LoopPcs,
                        status |-> sessions[ReplayId].status]
                  ELSE stop_at
    /\ UNCHANGED <<stream, cfg, run, pc, checkpoints, connected, events, idx,
                   checkpoint, start_id, events_processed, total_events, progress, raising,
                   result, reports, detector, analyzed, acked, published,
                   findings, outcomes,
                   faults, error_metrics>>
    /\ UNCHANGED unitVars

\* the process dies while the task is suspended: the registry and the task
\* are gone, the checkpoint store and the broker stay
Crash ==
    /\ pc \in AwaitPcs
    /\ pc' = "crashed"
    /\ outcomes' = Append(outcomes, "crashed")
    /\ sessions' = <<>>
    /\ connected' = FALSE
    /\ events' = <<>>
    /\ idx' = 0
    /\ checkpoint' = <<>>
    /\ start_id' = 0
    /\ events_processed' = 0
    /\ total_events' = 0
    /\ progress' = Unbound
    /\ raising' = FALSE
    /\ detector' = NewDetector
    /\ result' = <<>>
    /\ stop_at' = NoStop
    /\ faults' = {}
    /\ UNCHANGED <<stream, cfg, run, checkpoints, reports, analyzed, acked,
                   published, findings, error_metrics>>
    /\ UNCHANGED unitVars

Next ==
    \/ StartReplay
    \/ Connect
    \/ LoadCheckpoint
    \/ ReadRange
    \/ Pace
    \/ ProcessEvent
    \/ SaveCheckpoint
    \/ Ack
    \/ FinalCheckpoint
    \/ WriteReports
    \/ MarkCompleted
    \/ Disconnect
    \/ StopReplay
    \/ Crash

Spec == Init /\ [][Next]_vars

\* ---- I/O failures

\* the store and the adapter catch every exception of a call and return
\* False, None or [] instead
CallCatches_Propagates == FALSE

CallCatches == TRUE

\* what the caller sees of a failed call: the value the callee returned, or
\* the callee's exception in the except clause of execute_replay
FailedCall(kind, next_pc) ==
    IF CallCatches
    THEN /\ pc' = next_pc
         /\ UNCHANGED <<sessions, raising, error_metrics>>
    ELSE /\ pc' = "disconnect"
         /\ sessions' = HandlerSessions(sessions)
         /\ error_metrics' = HandlerMetrics(error_metrics, kind)
         /\ raising' = TRUE

\* connect raises: ping or xgroup_create failed and the adapter re-raises
ConnectFails ==
    /\ pc = "connect"
    /\ faults' = faults \cup {"connect"}
    /\ connected' = TRUE
    /\ sessions' = HandlerSessions(sessions)
    /\ error_metrics' = HandlerMetrics(error_metrics, "ConnectionError")
    /\ raising' = TRUE
    /\ pc' = "disconnect"
    /\ UNCHANGED <<stream, cfg, run, checkpoints, events, idx, checkpoint, start_id,
                   events_processed, total_events, progress, result, reports,
                   detector, analyzed, acked, published, findings, outcomes,
                   stop_at>>
    /\ UNCHANGED unitVars

\* load_checkpoint fails in the store: it returns None
LoadCheckpointFails ==
    /\ pc = "load_checkpoint"
    /\ faults' = faults \cup {"load"}
    /\ checkpoint' = <<>>
    /\ start_id' = ResumeId(<<>>)
    /\ events_processed' = ResumeCount(<<>>)
    /\ FailedCall("RedisError", "read")
    /\ UNCHANGED <<stream, cfg, run, checkpoints, connected, events, idx,
                   total_events, progress, result, reports, detector, analyzed,
                   acked, published, findings, outcomes, stop_at>>
    /\ UNCHANGED unitVars

\* read_messages_by_range fails in the adapter: it returns []
ReadRangeFails ==
    /\ pc = "read"
    /\ faults' = faults \cup {"read"}
    /\ events' = <<>>
    /\ total_events' = 0
    /\ sessions' = update_session_progress(sessions, ReplayId, [total_events |-> 0])
    /\ idx' = 1
    /\ pc' = LoopHead(<<>>, 1)
    /\ UNCHANGED <<stream, cfg, run, checkpoints, connected, checkpoint, start_id,
                   events_processed, progress, raising, result, reports, detector,
                   analyzed, acked, published, findings, outcomes, stop_at,
                   error_metrics>>
    /\ UNCHANGED unitVars

\* the record a failed save leaves in the store: the old one when hset
\* failed, the new one when only expire failed
FailedSave(written, data) ==
    IF written THEN save_checkpoint(checkpoints, ReplayId, data) ELSE checkpoints

\* the periodic save_checkpoint fails in the store: it returns False
SaveCheckpointFails ==
    /\ pc = "save"
    /\ faults' = faults \cup {"save"}
    /\ \E written \in BOOLEAN :
          checkpoints' = FailedSave(written,
                             [events_processed |-> events_processed,
                              current_message_id |-> events[idx].stream_id,
                              progress |-> progress,
                              completed_at |-> FALSE])
    /\ FailedCall("RedisError", "ack")
    /\ UNCHANGED <<stream, cfg, run, connected, events, idx, checkpoint, start_id,
                   events_processed, total_events, progress, result, reports,
                   detector, analyzed, acked, published, findings, outcomes,
                   stop_at>>
    /\ UNCHANGED unitVars

\* the final save_checkpoint fails in the store: it returns False
FinalCheckpointFails ==
    /\ pc = "final_save"
    /\ faults' = faults \cup {"final_save"}
    /\ \E written \in BOOLEAN :
          checkpoints' = FailedSave(written,
                             [events_processed |-> events_processed,
                              current_message_id |-> events[Len(events)].stream_id,
                              progress |-> One,
                              completed_at |-> TRUE])
    /\ FailedCall("RedisError", "report")
    /\ UNCHANGED <<stream, cfg, run, connected, events, idx, checkpoint, start_id,
                   events_processed, total_events, progress, result, reports,
                   detector, analyzed, acked, published, findings, outcomes,
                   stop_at>>
    /\ UNCHANGED unitVars

\* the acknowledge is attempted again after a failure
AfterFailedAck_Retry(k) == k

\* acknowledge_message returns False and the return value is dropped: the
\* for statement goes on with the next event
AfterFailedAck(k) == k + 1

\* acknowledge_message fails in the adapter: it returns False
AckFails ==
    /\ pc = "ack"
    /\ faults' = faults \cup {"ack"}
    /\ acked' = AppendRun(acked, events[idx].stream_id)
    /\ idx' = AfterFailedAck(idx)
    /\ pc' = IF AfterFailedAck(idx) = idx THEN "ack"
             ELSE LoopHead(events, AfterFailedAck(idx))
    /\ UNCHANGED <<stream, cfg, run, sessions, checkpoints, connected, events,
                   checkpoint, start_id, events_processed, total_events, progress,
                   raising, result, reports, detector, analyzed, published,
                   findings, outcomes, stop_at, error_metrics>>
    /\ UNCHANGED unitVars

\* the report directory cannot be created or the JSON report cannot be
\* opened: OSError
WriteReportsFails ==
    /\ pc = "report"
    /\ faults' = faults \cup {"report"}
    /\ reports' = [json |-> FALSE, html |-> FALSE]
    /\ sessions' = HandlerSessions(sessions)
    /\ error_metrics' = HandlerMetrics(error_metrics, "OSError")
    /\ raising' = TRUE
    /\ pc' = "disconnect"
    /\ UNCHANGED <<stream, cfg, run, checkpoints, connected, events, idx,
                   checkpoint, start_id, events_processed, total_events, progress,
                   result, detector, analyzed, acked, published, findings,
                   outcomes, stop_at>>
    /\ UNCHANGED unitVars

\* one process, no stop request, no crash: the replay task and I/O failures
NextFaults ==
    \/ StartReplay
    \/ Connect
    \/ LoadCheckpoint
    \/ ReadRange
    \/ Pace
    \/ ProcessEvent
    \/ SaveCheckpoint
    \/ Ack
    \/ FinalCheckpoint
    \/ WriteReports
    \/ MarkCompleted
    \/ Disconnect
    \/ ConnectFails
    \/ LoadCheckpointFails
    \/ ReadRangeFails
    \/ SaveCheckpointFails
    \/ FinalCheckpointFails
    \/ AckFails

SpecFaults == Init /\ [][NextFaults]_vars

\* the same, and the report files may fail to be written
NextReportFaults ==
    \/ NextFaults
    \/ WriteReportsFails

SpecReportFaults == Init /\ [][NextReportFaults]_vars

\* ---- runs over events of several levels

DetectLevels == {"INFO", "ERROR"}

StreamsDetect ==
    UNION {{s \in [1..n -> [ts : 1..MaxTs, event_id : 1..MaxEvents,
                             level : DetectLevels, source : Sources]] :
                \A a, b \in 1..n : a # b => s[a].event_id # s[b].event_id} :
           n \in 0..MaxEvents}

InitDetect ==
    /\ stream \in StreamsDetect
    /\ cfg \in Configs
    /\ Fresh
    /\ Idle

\* one process, no stop request, no crash, no I/O failure
NextDetect ==
    \/ StartReplay
    \/ Connect
    \/ LoadCheckpoint
    \/ ReadRange
    \/ Pace
    \/ ProcessEvent
    \/ SaveCheckpoint
    \/ Ack
    \/ FinalCheckpoint
    \/ WriteReports
    \/ MarkCompleted
    \/ Disconnect

SpecDetect == InitDetect /\ [][NextDetect]_vars

\* ---- a failing disconnect

\* an exception of disconnect leaving execute_replay
DisconnectCaught_Propagates == FALSE

\* "try: await self.redis_adapter.disconnect() ... except Exception as e:
\* self.logger.warning(...)" in the finally clause
DisconnectCaught == TRUE

\* disconnect raises in redis_client.close(): the connection stays as it is
DisconnectFails ==
    /\ pc = "disconnect"
    /\ faults' = faults \cup {"disconnect"}
    /\ IF raising \/ ~DisconnectCaught
       THEN /\ pc' = "raised"
            /\ outcomes' = Append(outcomes, "raised")
            /\ sessions' = IF ReplayId \in DOMAIN sessions
                           THEN [sessions EXCEPT ![ReplayId].status = "failed"]
                           ELSE sessions
       ELSE /\ pc' = "done"
            /\ outcomes' = Append(outcomes, "completed")
            /\ UNCHANGED sessions
    /\ UNCHANGED <<stream, cfg, run, checkpoints, connected, events, idx,
                   checkpoint, start_id, events_processed, total_events, progress,
                   raising, result, reports, detector, analyzed, acked,
                   published, findings, stop_at, error_metrics>>
    /\ UNCHANGED unitVars

\* one process, no stop request, no crash: the task, and a connect, a report
\* write or a disconnect that fails
NextDisconnect ==
    \/ NextDetect
    \/ ConnectFails
    \/ WriteReportsFails
    \/ DisconnectFails

SpecDisconnect == Init /\ [][NextDisconnect]_vars

\* ---- runs over events of two sessions

SessionIds == {"s1", "s2"}

StreamsSession ==
    UNION {{s \in [1..n -> [ts : 1..MaxTs, event_id : 1..MaxEvents,
                             level : Levels, source : Sources,
                             session_id : SessionIds]] :
                \A a, b \in 1..n : a # b => s[a].event_id # s[b].event_id} :
           n \in 0..MaxEvents}

\* replay_config of start_replay: "session_id": request.session_id, None
\* when the request names no session
ConfigsSession ==
    [mode : Modes, speed : Speeds, checkpoint_every : 1..MaxCheckpointEvery,
     max_events_per_batch : {MaxEvents}, session_id : {"s1", "None"}]

InitSession ==
    /\ stream \in StreamsSession
    /\ cfg \in ConfigsSession
    /\ Fresh
    /\ Idle

SpecSession == InitSession /\ [][NextDetect]_vars

\* ---- BugDetector instances driven on their own

\* the replay task at rest, for specifications that drive one component
AtRest ==
    /\ stream = <<>>
    /\ cfg = [mode |-> "dry-run", speed |-> 2, checkpoint_every |-> 1,
              max_events_per_batch |-> 1]
    /\ Fresh

\* every instance using one shared pair of dictionaries
StateOf_Shared(i) == 1

\* self.last_event_times and self.error_counts are created in __init__:
\* instance i has the dictionaries of its own
StateOf(i) == i

\* a second instance that starts with a stored time
InitialDetector_Leftover(i) ==
    IF i = 1 THEN NewDetector
    ELSE [last_event_times |-> Put(<<>>, "default", 0), error_counts |-> <<>>]

\* __init__: both dictionaries empty
InitialDetector(i) == NewDetector

\* instances 1..n constructed, nothing analyzed yet
Constructed(n) ==
    /\ detectors = [c \in {StateOf(i) : i \in 1..n} |-> InitialDetector(c)]
    /\ fed = [i \in 1..n |-> <<>>]
    /\ bugs = [i \in 1..n |-> <<>>]
    /\ tasks = <<>>
    /\ response = <<>>
    /\ now = 0
    /\ redis = <<>>
    /\ calls = <<>>

\* the event as the k-th one given to an instance: event_id is k
Numbered(e, k) == [e EXCEPT !.event_id = k]

\* instance i runs analyze_event on e
AnalyzeEvent(i, e) ==
    /\ bugs' = [bugs EXCEPT ![i] = Append(@, AnalyzeBugs(detectors[StateOf(i)], e))]
    /\ detectors' = [detectors EXCEPT ![StateOf(i)] = AnalyzeState(@, e)]
    /\ fed' = [fed EXCEPT ![i] = Append(@, e)]
    /\ UNCHANGED <<tasks, response, now, redis, calls>>
    /\ UNCHANGED replayVars

\* timestamps around the gap threshold, and one that does not parse
DetectorTs == {BadTs, 0, GapThresholdSeconds, 2 * GapThresholdSeconds + 1}

MaxAnalyzed == 3

\* events with and without a session_id field
DetectorInputs ==
    [ts : DetectorTs, event_id : {0}, level : {"INFO", "ERROR", "FATAL"},
     source : {"app"}]
    \cup [ts : DetectorTs, event_id : {0}, level : {"INFO", "ERROR", "FATAL"},
          source : {"app"}, session_id : {"s1"}]

InitDetector == AtRest /\ Constructed(1)

Analyze ==
    \E e \in DetectorInputs :
        /\ Len(fed[1]) < MaxAnalyzed
        /\ AnalyzeEvent(1, Numbered(e, Len(fed[1]) + 1))

SpecDetector == InitDetector /\ [][Analyze]_vars

MaxRepeated == 5

\* events of two sources and two levels
RepeatedInputs ==
    [ts : {BadTs, 0}, event_id : {0}, level : {"INFO", "ERROR"},
     source : {"app", "db"}]

AnalyzeRepeated ==
    \E e \in RepeatedInputs :
        /\ Len(fed[1]) < MaxRepeated
        /\ AnalyzeEvent(1, Numbered(e, Len(fed[1]) + 1))

SpecRepeated == InitDetector /\ [][AnalyzeRepeated]_vars

MaxEach == 2

InstanceInputs ==
    [ts : {BadTs, 0, 2 * GapThresholdSeconds + 1}, event_id : {0},
     level : {"INFO", "ERROR"}, source : {"app"}]
    \cup [ts : {0, 2 * GapThresholdSeconds + 1}, event_id : {0},
          level : {"ERROR"}, source : {"app"}, session_id : {"s1"}]

\* two replayers, each with the BugDetector its __init__ built
InitInstances == AtRest /\ Constructed(2)

\* the two replayers' analyze_event calls in any interleaving
AnalyzeAny ==
    \E i \in 1..2, e \in InstanceInputs :
        /\ Len(fed[i]) < MaxEach
        /\ AnalyzeEvent(i, Numbered(e, Len(fed[i]) + 1))

SpecInstances == InitInstances /\ [][AnalyzeAny]_vars

\* ---- the bugs-detected counter

MaxCounted == 2

\* the labels of one increment of BUGS_DETECTED_TOTAL per element of found
Increments(found) ==
    [k \in 1..Len(found) |->
        [bug_type |-> found[k].bug_type, severity |-> found[k].severity]]

\* one iteration of the replayer's loop up to the counter: analyze_event,
\* which calls self.metrics.record_bug_detected at each append, then "for
\* bug in bugs: self.metrics.record_bug_detected(bug.bug_type,
\* bug.severity)"; both collectors increment the module's one counter
AnalyzeCounted ==
    \E e \in DetectorInputs :
        /\ Len(fed[1]) < MaxCounted
        /\ LET found == AnalyzeBugs(detectors[StateOf(1)], Numbered(e, Len(fed[1]) + 1))
           IN /\ bugs' = [bugs EXCEPT ![1] = Append(@, found)]
              /\ calls' = calls \o Increments(found) \o Increments(found)
        /\ detectors' = [detectors EXCEPT ![StateOf(1)] =
                            AnalyzeState(@, Numbered(e, Len(fed[1]) + 1))]
        /\ fed' = [fed EXCEPT ![1] = Append(@, Numbered(e, Len(fed[1]) + 1))]
        /\ UNCHANGED <<tasks, response, now, redis>>
        /\ UNCHANGED replayVars

SpecCounted == InitDetector /\ [][AnalyzeCounted]_vars

\* ---- the session registry driven on its own

MaxCalls == 3

RegistryIds == {"r1", "r2"}

\* the keyword arguments a caller may give to a progress update
ProgressFields ==
    {"events_processed", "total_events", "progress", "bugs_detected",
     "current_event_id", "message"}

\* the value given for a field when it is supplied
Supplied ==
    [events_processed |-> 1, total_events |-> 2, progress |-> <<1, 2>>,
     bugs_detected |-> 1, current_event_id |-> "e1", message |-> "m"]

\* create_session of replay-engine/: "self.sessions[replay_id] = session"
create_session(ss, rid) == Put(ss, rid, NewSession)

\* update_progress of replay-engine/: progress and events_processed are
\* required parameters, bugs_detected defaults to 0 and is always written,
\* current_event_id and message are written when given, total_events is
\* accepted in **kwargs and never read
update_progress(ss, rid, given) ==
    IF rid \in DOMAIN ss
    THEN [ss EXCEPT
            ![rid].progress = Supplied.progress,
            ![rid].events_processed = Supplied.events_processed,
            ![rid].bugs_detected =
                IF "bugs_detected" \in given THEN Supplied.bugs_detected ELSE 0,
            ![rid].current_event_id =
                IF "current_event_id" \in given THEN Supplied.current_event_id ELSE @,
            ![rid].message =
                IF "message" \in given THEN Supplied.message ELSE @]
    ELSE ss

\* the keyword arguments of update_session_progress as a record
Kwargs(given) ==
    [f \in given \cap {"events_processed", "total_events", "progress"} |-> Supplied[f]]

InitRegistry ==
    /\ AtRest
    /\ detectors = <<>>
    /\ fed = <<>>
    /\ bugs = <<>>
    /\ tasks = <<>>
    /\ response = [seq |-> 0]
    /\ now = 0
    /\ redis = <<>>
    /\ calls = <<>>

Served(op, rid, given, value) ==
    [seq |-> response.seq + 1, op |-> op, replay_id |-> rid, given |-> given,
     returned |-> value]

RegistryFrame ==
    /\ UNCHANGED <<stream, cfg, run, pc, checkpoints, connected, events, idx,
                   checkpoint, start_id, events_processed, total_events, progress,
                   raising, result, reports, detector, analyzed, acked, published,
                   findings, outcomes, stop_at, faults, error_metrics>>
    /\ UNCHANGED <<detectors, fed, bugs, tasks, now, redis, calls>>

\* SessionManager.create_session(replay_id, mode)
CreateSession ==
    \E rid \in RegistryIds :
        /\ response.seq < MaxCalls
        /\ sessions' = create_session(sessions, rid)
        /\ response' = Served("create_session", rid, {}, "session")
        /\ RegistryFrame

\* SessionManager.update_progress(replay_id, **given); a call without
\* progress or events_processed raises TypeError before the body runs
UpdateProgress ==
    \E rid \in RegistryIds, given \in SUBSET ProgressFields :
        /\ response.seq < MaxCalls
        /\ IF {"progress", "events_processed"} \subseteq given
           THEN /\ sessions' = update_progress(sessions, rid, given)
                /\ response' = Served("update_progress", rid, given, "None")
           ELSE /\ sessions' = sessions
                /\ response' = Served("update_progress", rid, given, "TypeError")
        /\ RegistryFrame

\* SessionManager.update_session_progress(replay_id, **given) of
\* "replay engine/"
UpdateSessionProgress ==
    \E rid \in RegistryIds, given \in SUBSET ProgressFields :
        /\ response.seq < MaxCalls
        /\ sessions' = update_session_progress(sessions, rid, Kwargs(given))
        /\ response' = Served("update_session_progress", rid, given,
                              rid \in DOMAIN sessions)
        /\ RegistryFrame

NextRegistry == CreateSession \/ UpdateProgress \/ UpdateSessionProgress

SpecRegistry == InitRegistry /\ [][NextRegistry]_vars

\* ---- the control API driven on its own

MaxRequests == 3
MaxNow == 1

\* uuid.uuid4().hex[:8]: one of finitely many values, drawn at random
Uuids == {"r-0a", "r-0b"}

\* f"replay-{int(datetime.now().timestamp())}"
ClockId(t) == "replay-" \o ToString(t)

\* replay ids a client may name in a stop or status request
RequestIds == Uuids \cup {ClockId(0)}

\* create_session of "replay engine/": the session is stored under a new
\* key s-<n> with status pending; lookups by replay_id return the first
\* session stored with that replay_id
create_session_older(ss, rid) ==
    IF rid \in DOMAIN ss THEN ss
    ELSE Put(ss, rid, [NewSession EXCEPT !.status = "pending"])

\* "except Exception as e: raise HTTPException(status_code=500, ...)" around
\* the whole handler body: HTTPException is an Exception, so the 404 raised
\* inside the try block is caught and replaced
Surfaced(code) == 500

Answered(op, rid, code, body) ==
    [seq |-> response.seq + 1, op |-> op, replay_id |-> rid, code |-> code,
     body |-> body]

ControlFrame ==
    /\ UNCHANGED <<stream, cfg, run, pc, checkpoints, connected, events, idx,
                   checkpoint, start_id, events_processed, total_events, progress,
                   raising, result, reports, detector, analyzed, acked, published,
                   findings, outcomes, stop_at, faults, error_metrics>>
    /\ UNCHANGED <<detectors, fed, bugs, redis, calls>>

\* POST /replay/start of replay-engine/: a random id, create_session, a new
\* replayer, asyncio.create_task
StartByUuid ==
    \E rid \in Uuids :
        /\ response.seq < MaxRequests
        /\ sessions' = create_session(sessions, rid)
        /\ tasks' = Append(tasks, rid)
        /\ response' = Answered("start", rid, 200, "started")
        /\ UNCHANGED now
        /\ ControlFrame

\* POST /replay/start of "replay engine/": the id is the current second
StartByClock ==
    /\ response.seq < MaxRequests
    /\ sessions' = create_session_older(sessions, ClockId(now))
    /\ tasks' = Append(tasks, ClockId(now))
    /\ response' = Answered("start", ClockId(now), 200, "started")
    /\ UNCHANGED now
    /\ ControlFrame

\* a second passes
Tick ==
    /\ now < MaxNow
    /\ now' = now + 1
    /\ UNCHANGED <<sessions, tasks, response>>
    /\ ControlFrame

\* a replay task ends: execute_replay has written a terminal status
TaskEnds ==
    \E k \in DOMAIN tasks, status \in {"completed", "failed"} :
        /\ tasks' = [j \in 1..(Len(tasks) - 1) |-> IF j < k THEN tasks[j] ELSE tasks[j + 1]]
        /\ sessions' = update_session_status(sessions, tasks[k], status)
        /\ UNCHANGED <<response, now>>
        /\ ControlFrame

\* POST /replay/stop
StopRequest ==
    \E rid \in RequestIds :
        /\ response.seq < MaxRequests
        /\ IF rid \in DOMAIN sessions
           THEN /\ sessions' = [sessions EXCEPT ![rid].status = "stopped"]
                /\ response' = Answered("stop", rid, 200, "stopped")
           ELSE /\ sessions' = sessions
                /\ response' = Answered("stop", rid, Surfaced(404), "error")
        /\ UNCHANGED <<tasks, now>>
        /\ ControlFrame

\* GET /replay/status
StatusRequest ==
    \E rid \in RequestIds :
        /\ response.seq < MaxRequests
        /\ IF rid \in DOMAIN sessions
           THEN response' = Answered("status", rid, 200, sessions[rid].status)
           ELSE response' = Answered("status", rid, Surfaced(404), "error")
        /\ UNCHANGED <<sessions, tasks, now>>
        /\ ControlFrame

NextControl ==
    \/ StartByClock
    \/ StartByUuid
    \/ Tick
    \/ TaskEnds
    \/ StopRequest
    \/ StatusRequest

SpecControl == InitRegistry /\ [][NextControl]_vars

\* ---- the checkpoint store driven on its own

MaxStoreCalls == 4

StoreIds == {"r1", "r2"}
Kinds == {"main", "progress"}

\* a key that leaves the checkpoint type out
get_key_IgnoresKind(rid, kind) == "replay:checkpoint:" \o rid

\* _get_key: f"{self.prefix}:{replay_id}:{checkpoint_type}"
get_key(rid, kind) == "replay:checkpoint:" \o rid \o ":" \o kind

\* checkpoint data as the replayer builds it, after n events of two
StoreData ==
    {[events_processed |-> n, current_message_id |-> "1-0", progress |-> <<n, 2>>] :
        n \in 1..2}

RECURSIVE Gcd(_, _)
Gcd(a, b) == IF b = 0 THEN a ELSE Gcd(b, a % b)

\* the float a quotient evaluates to, as a fraction in lowest terms
FloatOf(p) == <<p[1] \div Gcd(p[1], p[2]), p[2] \div Gcd(p[1], p[2])>>

\* json.dumps of a dictionary of integers, strings and floats: integers and
\* strings are written as they are, a float by the repr of its value
json_dumps(d) == [f \in DOMAIN d |-> IF f = "progress" THEN FloatOf(d[f]) ELSE d[f]]

\* json.loads: the values that were written
json_loads(text) == text

\* checkpoint_data with saved_at, replay_id and checkpoint_type set
WithMetadata(data, rid, kind, at) ==
    [f \in DOMAIN data \cup {"saved_at", "replay_id", "checkpoint_type"} |->
        CASE f = "saved_at" -> at
          [] f = "replay_id" -> rid
          [] f = "checkpoint_type" -> kind
          [] OTHER -> data[f]]

\* HSET that leaves a field already present as it is
HSet_KeepExisting(old, mapping) ==
    [f \in DOMAIN old \cup DOMAIN mapping |-> IF f \in DOMAIN old THEN old[f] ELSE mapping[f]]

\* HSET key field value ...: the fields given replace those of the hash
HSet(old, mapping) ==
    [f \in DOMAIN old \cup DOMAIN mapping |->
        IF f \in DOMAIN mapping THEN mapping[f] ELSE old[f]]

Without(f, k) == [x \in DOMAIN f \ {k} |-> f[x]]

InitStore ==
    /\ AtRest
    /\ detectors = <<>>
    /\ fed = <<>>
    /\ bugs = <<>>
    /\ tasks = <<>>
    /\ response = <<>>
    /\ now = 0
    /\ redis = <<>>
    /\ calls = <<>>

StoreFrame ==
    /\ UNCHANGED replayVars
    /\ UNCHANGED <<detectors, fed, bugs, tasks, response>>

\* save_checkpoint with a working store: hset, expire, return True
StoreSave ==
    \E rid \in StoreIds, kind \in Kinds, data \in StoreData :
        /\ Len(calls) < MaxStoreCalls
        /\ redis' = Put(redis, get_key(rid, kind),
                        [hash |-> HSet(IF get_key(rid, kind) \in DOMAIN redis
                                       THEN redis[get_key(rid, kind)].hash ELSE <<>>,
                                       [data |-> json_dumps(WithMetadata(data, rid, kind, now)),
                                        timestamp |-> now]),
                         ttl |-> 86400])
        /\ calls' = Append(calls, [op |-> "save", key |-> get_key(rid, kind),
                                   replay_id |-> rid, kind |-> kind, data |-> data,
                                   at |-> now, returned |-> [ok |-> TRUE]])
        /\ now' = now + 1
        /\ StoreFrame

\* load_checkpoint: hgetall; None for an empty reply, else json.loads of
\* the data field
StoreLoad ==
    \E rid \in StoreIds, kind \in Kinds :
        /\ Len(calls) < MaxStoreCalls
        /\ calls' = Append(calls,
              [op |-> "load", key |-> get_key(rid, kind), replay_id |-> rid,
               kind |-> kind, at |-> now,
               returned |-> IF get_key(rid, kind) \in DOMAIN redis
                            THEN [found |-> TRUE,
                                  data |-> json_loads(redis[get_key(rid, kind)].hash.data)]
                            ELSE [found |-> FALSE]])
        /\ now' = now + 1
        /\ UNCHANGED redis
        /\ StoreFrame

\* delete_checkpoint: DEL key; True when a key was removed
StoreDelete ==
    \E rid \in StoreIds, kind \in Kinds :
        /\ Len(calls) < MaxStoreCalls
        /\ redis' = Without(redis, get_key(rid, kind))
        /\ calls' = Append(calls,
              [op |-> "delete", key |-> get_key(rid, kind), replay_id |-> rid,
               kind |-> kind, at |-> now,
               returned |-> [ok |-> get_key(rid, kind) \in DOMAIN redis]])
        /\ now' = now + 1
        /\ StoreFrame

\* 24 hours pass after the last save of a key: Redis removes it
Expire ==
    \E key \in DOMAIN redis :
        /\ Len(calls) < MaxStoreCalls
        /\ redis[key].ttl > 0
        /\ redis' = Without(redis, key)
        /\ calls' = Append(calls, [op |-> "expired", key |-> key, at |-> now])
        /\ now' = now + 1
        /\ StoreFrame

\* list_checkpoints: KEYS f"{prefix}:{replay_id}:*", then the text behind the
\* last ":" of every key found. A replay_id holds no ":" (control_api and
\* runner build it from letters, digits and "-"), so the keys found are
\* those this replay_id's saves wrote.
list_checkpoints(store, rid) ==
    {kind \in Kinds : get_key(rid, kind) \in DOMAIN store}

\* clear_all_checkpoints: delete_checkpoint for every type listed; True when
\* nothing was listed or every delete removed a key
StoreClearAll ==
    \E rid \in StoreIds :
        /\ Len(calls) < MaxStoreCalls
        /\ redis' = [key \in DOMAIN redis \
                        {get_key(rid, kind) : kind \in list_checkpoints(redis, rid)} |->
                        redis[key]]
        /\ calls' = Append(calls,
              [op |-> "clear_all", replay_id |-> rid, at |-> now,
               listed |-> list_checkpoints(redis, rid),
               returned |-> [ok |-> TRUE]])
        /\ now' = now + 1
        /\ StoreFrame

NextStore == StoreSave \/ StoreLoad \/ StoreDelete \/ StoreClearAll \/ Expire

SpecStore == InitStore /\ [][NextStore]_vars

\* ---- the checkpoint store over a failing Redis

\* save_checkpoint with a Redis command that raises: json.dumps or hset
\* fails and nothing is written, or hset succeeds and expire fails, which
\* leaves the new hash with the time to live the key had (none for a new
\* key); "except Exception: return False" either way
StoreSaveFails ==
    \E rid \in StoreIds, kind \in Kinds, data \in StoreData,
       failed \in {"hset", "expire"} :
        /\ Len(calls) < MaxStoreCalls
        /\ redis' =
              IF failed = "hset"
              THEN redis
              ELSE Put(redis, get_key(rid, kind),
                       [hash |-> HSet(IF get_key(rid, kind) \in DOMAIN redis
                                      THEN redis[get_key(rid, kind)].hash ELSE <<>>,
                                      [data |-> json_dumps(WithMetadata(data, rid, kind, now)),
                                       timestamp |-> now]),
                        ttl |-> IF get_key(rid, kind) \in DOMAIN redis
                                THEN redis[get_key(rid, kind)].ttl ELSE 0])
        /\ calls' = Append(calls, [op |-> "save", key |-> get_key(rid, kind),
                                   replay_id |-> rid, kind |-> kind, data |-> data,
                                   at |-> now, returned |-> [ok |-> FALSE]])
        /\ now' = now + 1
        /\ StoreFrame

NextStoreFaults == NextStore \/ StoreSaveFails

SpecStoreFaults == InitStore /\ [][NextStoreFaults]_vars

\* ---- the pacing of the loop on its own

MaxPaced == 3

PacingModes == {"dry-run", "timed", "live"}
PacingSpeeds == {1, 2, 4}
PacingTs == {0, 1, 6}

\* a run under one mode and speed, no event met yet
InitPacing ==
    /\ AtRest
    /\ detectors = <<>>
    /\ fed = <<>>
    /\ bugs = <<>>
    /\ tasks = <<>>
    /\ response \in [mode : PacingModes, speed : PacingSpeeds]
    /\ now = 0
    /\ redis = <<>>
    /\ calls = <<>>

\* the head of one loop iteration: the delay before the event of timestamp ts
PaceEvent ==
    \E ts \in PacingTs :
        /\ Len(calls) < MaxPaced
        /\ calls' = Append(calls, [ts |-> ts, slept |-> PacingDelay(response)])
        /\ UNCHANGED replayVars
        /\ UNCHANGED <<detectors, fed, bugs, tasks, response, now, redis>>

SpecPacing == InitPacing /\ [][PaceEvent]_vars

\* ---- two replay tasks on the adapter of the control API

MaxTasks == 2
MaxUses == 2

\* the calls task t has made on the adapter, in order
CallsOf(t) == SelectSeq(calls, LAMBDA c : c.task = t)

\* task t is between its connect and its disconnect
Connected(t) ==
    /\ CallsOf(t) # <<>>
    /\ CallsOf(t)[Len(CallsOf(t))].op # "disconnect"

\* redis_adapter = RedisStreamAdapter(...) at import: redis_client is None;
\* no request served yet
InitAdapter ==
    /\ AtRest
    /\ detectors = <<>>
    /\ fed = <<>>
    /\ bugs = <<>>
    /\ tasks = <<>>
    /\ response = [redis_client |-> 0, closed |-> {}]
    /\ now = 0
    /\ redis = <<>>
    /\ calls = <<>>

AdapterFrame ==
    /\ UNCHANGED replayVars
    /\ UNCHANGED <<detectors, fed, bugs, redis>>

\* start_replay: DeterministicReplayer(redis_adapter, ...) and create_task
StartTask ==
    \E rid \in Uuids \ Range(tasks) :
        /\ Len(tasks) < MaxTasks
        /\ tasks' = Append(tasks, rid)
        /\ UNCHANGED <<response, now, calls>>
        /\ AdapterFrame

\* connect: "self.redis_client = redis.Redis(connection_pool=...)", a new
\* client in place of the one the adapter held
AdapterConnect ==
    \E t \in Range(tasks) :
        /\ CallsOf(t) = <<>>
        /\ now' = now + 1
        /\ response' = [response EXCEPT !.redis_client = now + 1]
        /\ calls' = Append(calls, [op |-> "connect", task |-> t, client |-> now + 1,
                                   open |-> TRUE])
        /\ UNCHANGED tasks
        /\ AdapterFrame

\* read_messages_by_range and acknowledge_message: a command on
\* self.redis_client as it is at the call
AdapterUse ==
    \E t \in Range(tasks), op \in {"xrange", "xack"} :
        /\ Connected(t)
        /\ Len(CallsOf(t)) <= MaxUses
        /\ calls' = Append(calls, [op |-> op, task |-> t,
                                   client |-> response.redis_client,
                                   open |-> response.redis_client \notin response.closed])
        /\ UNCHANGED <<tasks, response, now>>
        /\ AdapterFrame

\* disconnect: "await self.redis_client.close()" closes the client the
\* adapter holds now and leaves the attribute set
AdapterDisconnect ==
    \E t \in Range(tasks) :
        /\ Connected(t)
        /\ response' = [response EXCEPT !.closed = @ \cup {response.redis_client}]
        /\ calls' = Append(calls, [op |-> "disconnect", task |-> t,
                                   client |-> response.redis_client,
                                   open |-> response.redis_client \notin response.closed])
        /\ UNCHANGED <<tasks, now>>
        /\ AdapterFrame

NextAdapter == StartTask \/ AdapterConnect \/ AdapterUse \/ AdapterDisconnect

SpecAdapter == InitAdapter /\ [][NextAdapter]_vars

\* ---- properties

NoDuplicates(q) == \A a, b \in 1..Len(q) : a # b => q[a] # q[b]
NonDecreasing(q) == \A a \in 1..(Len(q) - 1) : q[a] <= q[a + 1]
Ended(r) == r <= Len(outcomes)
SessionPresent == ReplayId \in DOMAIN sessions
\* a state another task or a client can see: the task is suspended or over
Observable == pc \in AwaitPcs \cup EndedPcs

\* C1: in every run, the stream ids handed to acknowledge_message follow the
\* events handed to analyze_event one for one (the same sequence once the run
\* has completed, at most the event in progress behind before), and that
\* sequence is non-decreasing in the key (parsed timestamp, event_id).
C1_SameOrderedSequence ==
    \A r \in 1..run :
        LET a == analyzed[r]
            k == acked[r]
            n == Len(a)
            m == Len(k)
        IN /\ m <= n
           /\ n <= m + 1
           /\ \A i \in 1..m : k[i] = a[i]
           /\ (Ended(r) /\ outcomes[r] = "completed" => m = n)
           /\ \A i \in 1..n : \A j \in (i + 1)..n :
                 KeyLeq(stream[a[i]], stream[a[j]])

\* a completed run over two events of equal timestamp whose event_id order
\* B, A differs from their broker order A, B
C1_Witness ==
    /\ pc = "done"
    /\ run = 1
    /\ Len(stream) = 2
    /\ stream[1].ts = stream[2].ts
    /\ analyzed[1] = <<2, 1>>
    /\ acked[1] = <<2, 1>>

\* C2: once a session's status is completed, failed or stopped, no step of
\* the replayer and no stop request changes it, except stopped to failed.
C2_TerminalAbsorbing ==
    [][(/\ run' = run
        /\ SessionPresent
        /\ ReplayId \in DOMAIN sessions'
        /\ sessions[ReplayId].status \in TerminalStatuses
        /\ sessions'[ReplayId].status # sessions[ReplayId].status)
       => (sessions[ReplayId].status = "stopped"
           /\ sessions'[ReplayId].status = "failed")]_vars

\* C3: after a stop request written while the replayer iterates over its
\* batch, no iteration that begins later analyzes, counts or acknowledges
\* its event.
C3_StopExitsLoop ==
    stop_at.in_loop =>
        /\ Len(analyzed[run]) <= stop_at.iter
        /\ Len(published[run]) <= stop_at.iter
        /\ Len(acked[run]) <= stop_at.iter

\* C4: a run that received a stop request while running and returns without
\* an error leaves the session stopped and a main checkpoint holding its
\* events_processed.
C4_StoppedRunEndsStopped ==
    (/\ pc = "done"
     /\ stop_at # NoStop
     /\ stop_at.status = "running"
     /\ SessionPresent)
    => /\ sessions[ReplayId].status = "stopped"
       /\ HasCheckpoint(checkpoints, ReplayId)
       /\ checkpoints[MainKey].events_processed = events_processed

\* the events a single uninterrupted run over the stream processes
UninterruptedIds ==
    {m.stream_id : m \in Range(read_messages_by_range(0, cfg.max_events_per_batch))}

\* C5: a run interrupted after writing a checkpoint, then a resumed run that
\* completes: together they process exactly the events of one uninterrupted
\* run and acknowledge no stream id twice.
C5_ResumeEquivalent ==
    (/\ run = 2
     /\ pc = "done"
     /\ outcomes = <<"crashed", "completed">>
     /\ checkpoint # <<>>)
    => /\ Range(analyzed[1]) \cup Range(analyzed[2]) = UninterruptedIds
       /\ NoDuplicates(acked[1] \o acked[2])

\* C6: a run started with a main checkpoint {events_processed = n,
\* current_message_id = m} processes only events with broker id > m and ends
\* with events_processed = n + the number of events after m.
C6_ResumeStrictlyAfter ==
    (pc = "done" /\ checkpoint # <<>>)
    => /\ \A k \in Range(analyzed[run]) : k > checkpoint.current_message_id
       /\ result.events_processed =
            checkpoint.events_processed
            + Cardinality({k \in 1..Len(stream) : k > checkpoint.current_message_id})

\* C7: at every observable state events_processed <= total_events when
\* total_events > 0, in fresh and in resumed runs.
C7_ProcessedAtMostTotal ==
    (Observable /\ SessionPresent /\ sessions[ReplayId].total_events > 0)
    => sessions[ReplayId].events_processed <= sessions[ReplayId].total_events

\* the registry (an in-process map) that run r1 published to is still the
\* one run r2 publishes to: no crash of the process in between
SameRegistry(r1, r2) == \A r \in r1..(r2 - 1) : Ended(r) /\ outcomes[r] # "crashed"

C9_ProgressQuotient ==
    (Observable /\ SessionPresent)
    => LET s == sessions[ReplayId]
       IN /\ IF s.total_events > 0
             THEN ProgressEq(s.progress, <<s.events_processed, s.total_events>>)
             ELSE ProgressEq(s.progress, Zero)
          /\ ProgressLeq(Zero, s.progress)
          /\ ProgressLeq(s.progress, One)

\* C10: a run whose range read returned no event terminates with status
\* completed and progress 0.0 in the session and in the returned result.
C10_EmptyRunCompletes ==
    (/\ pc \in {"done", "raised"}
     /\ read_messages_by_range(start_id, cfg.max_events_per_batch) = <<>>)
    => /\ SessionPresent
       /\ sessions[ReplayId].status = "completed"
       /\ ProgressEq(sessions[ReplayId].progress, Zero)
       /\ result # <<>>
       /\ ProgressEq(result.progress, Zero)


\* the batch the current run reads, as the broker holds it
BatchRead == read_messages_by_range(start_id, cfg.max_events_per_batch)
RunOver == pc \in {"done", "raised"}
StoreFaults == {"load", "save", "final_save"}

\* C11: within one run acknowledge_message is called at most once per stream
\* id, only for events the run analyzed and counted, and once for each of
\* them when the run completes; an acknowledge that fails is not repeated.
C11_AckOncePerEvent ==
    \A r \in 1..run :
        /\ NoDuplicates(acked[r])
        /\ Range(acked[r]) \subseteq Range(analyzed[r])
        /\ Len(acked[r]) <= Len(published[r])
        /\ (Ended(r) /\ outcomes[r] = "completed" => Len(acked[r]) = Len(published[r]))

\* a completed run over two events in which an acknowledge failed
C11_Witness ==
    /\ pc = "done"
    /\ "ack" \in faults
    /\ Len(acked[run]) = 2
    /\ Len(published[run]) = 2

\* C12: a second run right after a run that processed and acknowledged every
\* event of the stream returns total_events = 0 and status completed.
C12_SecondRunEmpty ==
    (/\ run = 2
     /\ RunOver
     /\ outcomes[1] = "completed"
     /\ Range(acked[1]) = 1..Len(stream))
    => /\ result # <<>>
       /\ result.total_events = 0
       /\ result.status = "completed"

\* C13: the step in which execute_replay starts to unwind with an exception
\* marks the session failed and records one error metric, and when the
\* exception has left the task the session, if it exists, is failed.
C13_RaiseMarksFailed ==
    [][/\ (~raising /\ raising' /\ ReplayId \in DOMAIN sessions')
            => /\ sessions'[ReplayId].status = "failed"
               /\ Len(error_metrics'[run]) = Len(error_metrics[run]) + 1
       /\ (pc = "disconnect" /\ raising /\ pc' = "raised")
            => /\ error_metrics[run] # <<>>
               /\ (ReplayId \in DOMAIN sessions'
                     => sessions'[ReplayId].status = "failed")]_vars

\* a run that connect failed: session failed, one error metric
C13_Witness ==
    /\ pc = "raised"
    /\ "connect" \in faults
    /\ SessionPresent
    /\ sessions[ReplayId].status = "failed"
    /\ error_metrics[run] = <<"ConnectionError">>

\* C14: a run that raised after processing events leaves a main checkpoint
\* holding its events_processed.
C14_FailureCheckpoints ==
    (pc = "raised" /\ published[run] # <<>>)
    => /\ HasCheckpoint(checkpoints, ReplayId)
       /\ checkpoints[MainKey].events_processed = events_processed

\* C15: a run whose batch holds an event with an unparseable timestamp
\* completes, having counted and acknowledged every event of the batch.
C15_BadTimestampProcessed ==
    (RunOver /\ SortRaises(BatchRead))
    => /\ outcomes[run] = "completed"
       /\ Len(published[run]) = Len(BatchRead)
       /\ Len(acked[run]) = Len(BatchRead)

\* C16: a run whose only failures are broker failures completes: with
\* total_events = 0 when the range read failed, with every event of the
\* batch acknowledged once when only acknowledges failed.
C16_BrokerErrorNotFatal ==
    /\ (RunOver /\ faults = {"read"})
       => /\ outcomes[run] = "completed"
          /\ result # <<>>
          /\ result.total_events = 0
    /\ (RunOver /\ faults = {"ack"} /\ events # <<>>)
       => /\ outcomes[run] = "completed"
          /\ Len(acked[run]) = Len(events)
    /\ ("ack" \in faults /\ SessionPresent /\ events # <<>> /\ ~raising)
       => sessions[ReplayId].status # "failed"

\* C17: a run whose only failures are checkpoint store failures, over a
\* batch that is not empty, never unwinds and never becomes failed, and
\* completes with every event acknowledged; after a failed load_checkpoint
\* the run reads from "0" and counts from 0.
C17_StoreFailureNotFatal ==
    /\ (faults # {} /\ faults \subseteq StoreFaults /\ events # <<>>)
       => /\ ~raising
          /\ (SessionPresent => sessions[ReplayId].status # "failed")
          /\ (RunOver => /\ outcomes[run] = "completed"
                         /\ Len(acked[run]) = Len(events))
    /\ ("load" \in faults /\ pc # "disconnect" /\ ~RunOver)
       => /\ checkpoint = <<>>
          /\ start_id = 0
          /\ events_processed = Len(published[run])

\* a second run that completed although its load_checkpoint failed, with
\* a checkpoint in the store, and a save failed
C17_Witness ==
    /\ run = 2
    /\ pc = "done"
    /\ "load" \in faults
    /\ faults \cap {"save", "final_save"} # {}
    /\ faults \subseteq StoreFaults
    /\ start_id = 0
    /\ outcomes = <<"completed", "completed">>

\* C18: in the loop, when events_processed is a multiple of checkpoint_every
\* the main checkpoint saved before the acknowledge holds that count, the
\* stream id of the event just processed and the current progress; a save
\* happens only then; and the event is analyzed and its progress published
\* before the save and the acknowledge.
C18_PeriodicCheckpoint ==
    /\ (pc = "ack" /\ events_processed % cfg.checkpoint_every = 0)
       => /\ HasCheckpoint(checkpoints, ReplayId)
          /\ checkpoints[MainKey] =
               [events_processed |-> events_processed,
                current_message_id |-> events[idx].stream_id,
                progress |-> progress,
                completed_at |-> FALSE]
    /\ (pc = "save") => events_processed % cfg.checkpoint_every = 0
    /\ (pc \in {"save", "ack"})
       => /\ Len(analyzed[run]) = Len(acked[run]) + 1
          /\ Len(published[run]) = Len(analyzed[run])
          /\ analyzed[run][Len(analyzed[run])] = events[idx].stream_id
          /\ sessions[ReplayId].events_processed = events_processed
    /\ (pc \in {"pace", "process"}) => Len(analyzed[run]) = Len(acked[run])

\* the second event of a run with checkpoint_every = 2, saved and about to
\* be acknowledged
C18_Witness ==
    /\ pc = "ack"
    /\ cfg.checkpoint_every = 2
    /\ events_processed = 2
    /\ HasCheckpoint(checkpoints, ReplayId)
    /\ checkpoints[MainKey].events_processed = 2
    /\ checkpoints[MainKey].current_message_id = events[idx].stream_id

\* C19: completion follows the order final checkpoint, report, status, for
\* every batch: a report file is written only when the store holds a main
\* checkpoint with progress 1.0 and completed_at set, and the session's
\* status is completed only when, besides, both report files are written.
FinalCheckpointSaved ==
    /\ HasCheckpoint(checkpoints, ReplayId)
    /\ checkpoints[MainKey].completed_at
    /\ ProgressEq(checkpoints[MainKey].progress, One)

C19_CompletedLast ==
    /\ (reports.json \/ reports.html) => FinalCheckpointSaved
    /\ (SessionPresent /\ sessions[ReplayId].status = "completed")
       => /\ FinalCheckpointSaved
          /\ reports.json
          /\ reports.html

\* C20: when a run has completed, the session's bugs_detected is the number
\* of findings analyze_event returned in that run.
C20_BugsCounted ==
    (pc = "done" /\ SessionPresent)
    => sessions[ReplayId].bugs_detected = findings[run]


\* ---- properties of the detector

MaxOf(S) == CHOOSE x \in S : \A y \in S : y <= x

\* number of findings of one type returned for the k-th event of instance i
TypeCount(i, k, type) ==
    Cardinality({f \in 1..Len(bugs[i][k]) : bugs[i][k][f].bug_type = type})

SeverityOf(i, k, type) ==
    {bugs[i][k][f].severity : f \in {g \in 1..Len(bugs[i][k]) : bugs[i][k][g].bug_type = type}}

\* what one instance, alone, returns for a sequence and the state it ends in
RECURSIVE StateAlone(_)
StateAlone(seq) ==
    IF seq = <<>> THEN NewDetector
    ELSE AnalyzeState(StateAlone(SubSeq(seq, 1, Len(seq) - 1)), seq[Len(seq)])

FindingsAlone(seq) ==
    [k \in 1..Len(seq) |-> AnalyzeBugs(StateAlone(SubSeq(seq, 1, k - 1)), seq[k])]

SameKeyUpTo(k) ==
    {j \in 1..k : /\ fed[1][j].source = fed[1][k].source
                  /\ fed[1][j].level = fed[1][k].level}

ParseableSameKeyUpTo(k) == {j \in SameKeyUpTo(k) : fed[1][j].ts # BadTs}

\* C22 as stated: the count of a source:level pair grows with every event
\* given to analyze_event, and the k-th event gets one repeated_error
\* finding, of severity high, exactly when it is at least the fourth event
\* of its pair; of five events of one pair, the fourth and fifth get one.
C22_CountsEveryEvent ==
    /\ \A k \in 1..Len(fed[1]) :
          /\ TypeCount(1, k, "repeated_error") =
                (IF Cardinality(SameKeyUpTo(k)) > 3 THEN 1 ELSE 0)
          /\ SeverityOf(1, k, "repeated_error") \subseteq {"high"}
          /\ Get(detectors[1].error_counts,
                 <<fed[1][k].source, fed[1][k].level>>, 0)
             = Cardinality({j \in 1..Len(fed[1]) :
                              /\ fed[1][j].source = fed[1][k].source
                              /\ fed[1][j].level = fed[1][k].level})

\* C22, amended: the same for the events whose timestamp parses; an event
\* whose timestamp does not parse is not counted and gets no finding.
C22_RepeatedErrorRule ==
    /\ \A k \in 1..Len(fed[1]) :
          /\ TypeCount(1, k, "repeated_error") =
                (IF fed[1][k].ts # BadTs /\ Cardinality(ParseableSameKeyUpTo(k)) > 3
                 THEN 1 ELSE 0)
          /\ SeverityOf(1, k, "repeated_error") \subseteq {"high"}
          /\ Get(detectors[1].error_counts,
                 <<fed[1][k].source, fed[1][k].level>>, 0)
             = Cardinality({j \in 1..Len(fed[1]) :
                              /\ fed[1][j].ts # BadTs
                              /\ fed[1][j].source = fed[1][k].source
                              /\ fed[1][j].level = fed[1][k].level})

\* five events of one source:level pair, all with timestamps that parse:
\* findings on the fourth and the fifth only
C22_Witness ==
    /\ Len(fed[1]) = 5
    /\ \A k \in 1..5 : fed[1][k].ts # BadTs /\ SameKeyUpTo(k) = 1..k
    /\ fed[1][1].level = "INFO"
    /\ [k \in 1..5 |-> TypeCount(1, k, "repeated_error")] = <<0, 0, 0, 1, 1>>
    /\ detectors[1].error_counts[<<fed[1][1].source, "INFO">>] = 5

\* the session key of an event: its session_id, "default" without one
KeyOf(e) == IF "session_id" \in DOMAIN e THEN e.session_id ELSE "default"

\* the earlier events of instance 1 with a parseable timestamp and the key
\* of the k-th
StoredBefore(k) ==
    {j \in 1..(k - 1) : fed[1][j].ts # BadTs /\ KeyOf(fed[1][j]) = KeyOf(fed[1][k])}

\* C23: an event with a parseable timestamp gets one timing_gap finding, of
\* severity medium, exactly when a timestamp is stored for its session key
\* and its own is more than gap_threshold_seconds later, none otherwise;
\* the stored timestamp of a key is that of the last such event; two events
\* of a key 301 seconds apart give one finding, on the second.
C23_TimingGapRule ==
    /\ \A k \in 1..Len(fed[1]) :
          fed[1][k].ts # BadTs =>
             /\ TypeCount(1, k, "timing_gap") =
                   (IF /\ StoredBefore(k) # {}
                       /\ fed[1][k].ts - fed[1][MaxOf(StoredBefore(k))].ts
                             > GapThresholdSeconds
                    THEN 1 ELSE 0)
             /\ SeverityOf(1, k, "timing_gap") \subseteq {"medium"}
             /\ KeyOf(fed[1][k]) \in DOMAIN detectors[1].last_event_times
    /\ \A key \in DOMAIN detectors[1].last_event_times :
          LET seen == {j \in 1..Len(fed[1]) :
                          fed[1][j].ts # BadTs /\ KeyOf(fed[1][j]) = key}
          IN /\ seen # {}
             /\ detectors[1].last_event_times[key] = fed[1][MaxOf(seen)].ts
    /\ (/\ Len(fed[1]) = 2
        /\ fed[1][1].ts # BadTs
        /\ KeyOf(fed[1][1]) = KeyOf(fed[1][2])
        /\ fed[1][2].ts - fed[1][1].ts = 301)
       => /\ TypeCount(1, 1, "timing_gap") = 0
          /\ TypeCount(1, 2, "timing_gap") = 1

\* three events of session s1 at 0, 300 and 601 seconds: the gap of 300
\* gives nothing, the gap of 301 one finding
C23_Witness ==
    /\ Len(fed[1]) = 3
    /\ \A k \in 1..3 : KeyOf(fed[1][k]) = "s1"
    /\ [k \in 1..3 |-> fed[1][k].ts] = <<0, 300, 601>>
    /\ [k \in 1..3 |-> TypeCount(1, k, "timing_gap")] = <<0, 0, 1>>
    /\ detectors[1].last_event_times["s1"] = 601

\* C24: an event with a parseable timestamp gets exactly one error_event
\* finding, of severity high, when its level is ERROR, FATAL or CRITICAL,
\* and none otherwise.
C24_ErrorLevelRule ==
    \A k \in 1..Len(fed[1]) :
        fed[1][k].ts # BadTs =>
           /\ TypeCount(1, k, "error_event") =
                 (IF fed[1][k].level \in {"ERROR", "FATAL", "CRITICAL"} THEN 1 ELSE 0)
           /\ SeverityOf(1, k, "error_event") \subseteq {"high"}
           /\ \A f \in 1..Len(bugs[1][k]) :
                 bugs[1][k][f].bug_type = "error_event"
                 => bugs[1][k][f].event_id = fed[1][k].event_id

\* an INFO, an ERROR and a FATAL event: findings for the last two
C24_Witness ==
    /\ Len(fed[1]) = 3
    /\ [k \in 1..3 |-> fed[1][k].level] = <<"INFO", "ERROR", "FATAL">>
    /\ \A k \in 1..3 : fed[1][k].ts # BadTs
    /\ [k \in 1..3 |-> TypeCount(1, k, "error_event")] = <<0, 1, 1>>

\* C25: what an instance has returned, and the state it is in, are those of
\* its own events alone, whatever the other instance analyzed and when.
C25_PerRunIsolation ==
    \A i \in DOMAIN fed :
        /\ bugs[i] = FindingsAlone(fed[i])
        /\ detectors[StateOf(i)] = StateAlone(fed[i])

\* two instances given the same second event after different first ones:
\* a timing_gap finding for instance 2 only
C25_Witness ==
    /\ DOMAIN fed = 1..2
    /\ Len(fed[1]) = 2
    /\ Len(fed[2]) = 2
    /\ fed[1][2] = fed[2][2]
    /\ TypeCount(1, 2, "timing_gap") = 0
    /\ TypeCount(2, 2, "timing_gap") = 1
    /\ detectors[1] # <<>>


\* ---- properties of the control API and the registry

C27_CreateFailsIfPresent ==
    [][(response'.seq # response.seq /\ response'.op = "create_session")
         => IF response'.replay_id \in DOMAIN sessions
            THEN /\ response'.returned = "error"
                 /\ sessions' = sessions
            ELSE /\ response'.replay_id \in DOMAIN sessions'
                 /\ sessions'[response'.replay_id].status = "running"]_vars

\* C28: a stop or status request naming a replay_id without a session is
\* answered with code 404 and leaves the registry unchanged; a stop request
\* naming a replay_id with a session is answered with status stopped.
C28_NotFoundIs404 ==
    [][(response'.seq # response.seq /\ response'.op \in {"stop", "status"})
         => IF response'.replay_id \in DOMAIN sessions
            THEN response'.op = "stop"
                 => /\ response'.code = 200
                    /\ response'.body = "stopped"
            ELSE /\ response'.code = 404
                 /\ sessions' = sessions]_vars

\* C29: a progress update of an existing session leaves every field that the
\* caller did not supply, status included, at its value before the call.
C29_UnsuppliedFieldsKept ==
    [][(/\ response'.seq # response.seq
        /\ response'.op \in {"update_progress", "update_session_progress"}
        /\ response'.replay_id \in DOMAIN sessions)
         => /\ response'.replay_id \in DOMAIN sessions'
            /\ \A f \in (ProgressFields \cup {"status"}) \ response'.given :
                  sessions'[response'.replay_id][f] = sessions[response'.replay_id][f]]_vars


\* ---- properties of the checkpoint store

\* the calls before the k-th that wrote or removed the key of the k-th
WritesBefore(k) ==
    {j \in 1..(k - 1) :
        /\ calls[j].op # "load"
        /\ IF calls[j].op = "clear_all"
           THEN calls[j].replay_id = calls[k].replay_id
           ELSE calls[j].key = calls[k].key}

\* two decoded checkpoints with the same fields and values, floats compared
\* by value
SameData(a, b) ==
    /\ DOMAIN a = DOMAIN b
    /\ \A f \in DOMAIN a :
          IF f = "progress" THEN ProgressEq(a[f], b[f]) ELSE a[f] = b[f]

\* C30: every save returns true; a load returns the data of the most recent
\* save of its (replay_id, kind), with saved_at, replay_id and
\* checkpoint_type added, when that key has been saved and neither deleted
\* nor expired since, and none otherwise.
C30_RoundTripLastWriterWins ==
    \A k \in 1..Len(calls) :
        /\ calls[k].op = "save" => calls[k].returned.ok
        /\ calls[k].op = "load" =>
              IF WritesBefore(k) # {} /\ calls[MaxOf(WritesBefore(k))].op = "save"
              THEN LET last == calls[MaxOf(WritesBefore(k))]
                   IN /\ calls[k].returned.found
                      /\ SameData(calls[k].returned.data,
                                  [f \in DOMAIN last.data
                                          \cup {"saved_at", "replay_id", "checkpoint_type"} |->
                                      CASE f = "saved_at" -> last.at
                                        [] f = "replay_id" -> calls[k].replay_id
                                        [] f = "checkpoint_type" -> calls[k].kind
                                        [] OTHER -> last.data[f]])
              ELSE ~calls[k].returned.found

\* two saves of one key with different data, then a load that returns the
\* second
C30_Witness ==
    /\ Len(calls) = 3
    /\ calls[1].op = "save"
    /\ calls[2].op = "save"
    /\ calls[3].op = "load"
    /\ calls[1].key = calls[2].key
    /\ calls[2].key = calls[3].key
    /\ calls[1].data # calls[2].data
    /\ calls[3].returned.found
    /\ calls[3].returned.data.events_processed = calls[2].data.events_processed
    /\ calls[3].returned.data.saved_at = calls[2].at


\* what is stored for (replay_id, kind): the hash load_checkpoint would read
StoredFor(store, rid, kind) ==
    IF get_key(rid, kind) \in DOMAIN store
    THEN <<store[get_key(rid, kind)]>>
    ELSE <<>>

LastCall == calls'[Len(calls')]

\* C31: a save or a delete on one (replay_id, kind) leaves what is stored for
\* every other (replay_id, kind) as it was, the other kind of the same
\* replay_id included; clear_all of a replay_id leaves nothing stored for
\* any kind of it and leaves every other replay_id's records as they were.
C31_KeyedByIdAndKind ==
    [][Len(calls') = Len(calls) + 1 =>
        /\ LastCall.op \in {"save", "delete"} =>
              \A rid \in StoreIds, kind \in Kinds :
                  <<rid, kind>> # <<LastCall.replay_id, LastCall.kind>>
                  => StoredFor(redis', rid, kind) = StoredFor(redis, rid, kind)
        /\ LastCall.op = "clear_all" =>
              \A rid \in StoreIds, kind \in Kinds :
                  IF rid = LastCall.replay_id
                  THEN StoredFor(redis', rid, kind) = <<>>
                  ELSE StoredFor(redis', rid, kind) = StoredFor(redis, rid, kind)]_vars

\* both kinds of r1 and the main kind of r2 are stored, and a clear_all of
\* r1 has just removed the two of r1 and kept that of r2
C31_Witness ==
    /\ Len(calls) = 4
    /\ calls[Len(calls)].op = "clear_all"
    /\ calls[Len(calls)].replay_id = "r1"
    /\ calls[Len(calls)].listed = Kinds
    /\ DOMAIN redis = {get_key("r2", "main")}


\* ---- properties of the replay task, continued

\* C32: when the config supplies a session_id, every event analyzed and every
\* event acknowledged in a run carries that session_id.
C32_OnlyEventsOfSession ==
    cfg.session_id # "None" =>
        \A r \in 1..run :
            /\ \A i \in 1..Len(analyzed[r]) :
                  stream[analyzed[r][i]].session_id = cfg.session_id
            /\ \A i \in 1..Len(acked[r]) :
                  stream[acked[r][i]].session_id = cfg.session_id


\* ---- properties of the pacing

\* a quotient clamped to [0, 2]
Clamped(p) == IF p[1] < 0 THEN Zero ELSE IF p[1] > 2 * p[2] THEN <<2, 1>> ELSE p

\* C33: the delay before each event is 0.5/speed seconds in dry-run, the
\* difference to the previous timestamp divided by speed and clamped to
\* [0, 2] seconds in timed, and 1/speed seconds in live, for every speed.
C33_DelayByMode ==
    \A k \in 1..Len(calls) :
        CASE response.mode = "dry-run" ->
                ProgressEq(calls[k].slept, <<1, 2 * response.speed>>)
          [] response.mode = "live" ->
                ProgressEq(calls[k].slept, <<1, response.speed>>)
          [] OTHER ->
                k > 1 => ProgressEq(calls[k].slept,
                                    Clamped(<<calls[k].ts - calls[k - 1].ts,
                                              response.speed>>))


\* C34: a run ends (returns or raises) only through the disconnect of the
\* finally clause, which leaves the adapter disconnected unless the
\* disconnect itself failed; and the step that ends the run gives the
\* outcome and the session status that the run had before it, whether the
\* disconnect failed or not: completed stays completed, raising ends raised
\* with status failed.
C34_DisconnectsAtEnd ==
    [][/\ (pc' \in {"done", "raised"} /\ pc' # pc)
          => /\ pc = "disconnect"
             /\ (~connected' \/ "disconnect" \in faults')
       /\ (pc = "disconnect" /\ pc' # pc)
          => /\ pc' = (IF raising THEN "raised" ELSE "done")
             /\ outcomes' = Append(outcomes, IF raising THEN "raised" ELSE "completed")
             /\ (~raising => sessions' = sessions)
             /\ (raising /\ SessionPresent => sessions'[ReplayId].status = "failed")]_vars

\* a run that processed an event and completed although its disconnect
\* failed
C34_Witness ==
    /\ pc = "done"
    /\ "disconnect" \in faults
    /\ connected
    /\ outcomes[run] = "completed"
    /\ Len(acked[run]) > 0
    /\ sessions[ReplayId].status = "completed"


\* C35: at every point of a run, the current_message_id of the stored main
\* checkpoint is at least the broker id of every event the run has
\* acknowledged so far.
C35_CheckpointCoversAcked ==
    (run > 0 /\ HasCheckpoint(checkpoints, ReplayId))
    => \A i \in 1..Len(acked[run]) :
          checkpoints[MainKey].current_message_id >= acked[run][i]


\* ---- properties of the shared adapter

\* the client task t's own connect created
OwnClient(t) == CallsOf(t)[1].client

\* C36: no task connects or disconnects the adapter while another task is
\* between its own connect and its own disconnect, and every read and ack of
\* a task goes to the client its own connect created, still open.
C36_NoTaskClosesAnothers ==
    [][Len(calls') = Len(calls) + 1 =>
        LET c == calls'[Len(calls')]
        IN /\ c.op \in {"connect", "disconnect"} =>
                 \A u \in Range(tasks) \ {c.task} : ~Connected(u)
           /\ c.op \in {"xrange", "xack"} =>
                 /\ c.client = OwnClient(c.task)
                 /\ c.open]_vars


\* ---- properties of the checkpoint store, continued

\* C37: a save_checkpoint that returns false has left what is stored for its
\* (replay_id, kind) as it was before the call.
C37_FalseMeansUnchanged ==
    [][(/\ Len(calls') = Len(calls) + 1
        /\ LastCall.op = "save"
        /\ ~LastCall.returned.ok)
       => StoredFor(redis', LastCall.replay_id, LastCall.kind)
            = StoredFor(redis, LastCall.replay_id, LastCall.kind)]_vars


\* ---- properties of the detector, continued

\* C38: an analyze_event call on an event whose timestamp is missing or does
\* not parse returns no finding and leaves last_event_times and error_counts
\* of the instance as they were.
C38_RejectedEventNoEffect ==
    [][\A i \in DOMAIN fed :
          (/\ Len(fed'[i]) = Len(fed[i]) + 1
           /\ ~Parseable(fed'[i][Len(fed'[i])]))
          => /\ bugs'[i][Len(bugs'[i])] = <<>>
             /\ detectors'[StateOf(i)] = detectors[StateOf(i)]]_vars

\* an instance that holds state from a parseable ERROR event and has then
\* been given an ERROR event whose timestamp does not parse
C38_Witness ==
    /\ 1 \in DOMAIN fed
    /\ Len(fed[1]) = 2
    /\ Parseable(fed[1][1])
    /\ fed[1][1].level = "ERROR"
    /\ ~Parseable(fed[1][2])
    /\ fed[1][2].level = "ERROR"
    /\ bugs[1][2] = <<>>
    /\ detectors[StateOf(1)].error_counts = Put(<<>>, ErrorKey(fed[1][1]), 1)
    /\ DOMAIN detectors[StateOf(1)].last_event_times = {SessionKey(fed[1][1])}


\* every finding returned so far, in order
RECURSIVE Flatten(_)
Flatten(lists) ==
    IF lists = <<>> THEN <<>> ELSE Head(lists) \o Flatten(Tail(lists))

\* C39: the increments of replay_bugs_detected_total are one per finding
\* returned, with the finding's bug_type and severity.
C39_CounterEqualsFindings ==
    calls = Increments(Flatten(bugs[1]))

=============================================================================
